---- MODULE Spec2Model ----
(***************************************************************************)
(* Bracket highlighting of the editor: Editor::refresh_bracket_highlights  *)
(* (crates/editor/src/bracket_highlights.rs).                              *)
(*                                                                         *)
(* The editor shows a multi-buffer: a sequence of excerpts, each a slice   *)
(* of a source buffer.  Offsets into the multi-buffer are "composite",     *)
(* offsets into a source buffer are "local".  One refresh call             *)
(*   - submits, per nesting depth, the bracket tokens of the visible       *)
(*     window as a text-highlight layer keyed by the depth (rainbow), and  *)
(*   - unless the reason is a scroll, clears and recomputes the background *)
(*     highlight of the pair enclosing the cursor (matching bracket).      *)
(*                                                                         *)
(* The collaborators of other crates (multi_buffer, language, text, gpui)  *)
(* are modelled by their interface: texts are sequences of one-byte        *)
(* characters, "W" "w" being the two bytes of one wide character.          *)
(***************************************************************************)
EXTENDS Integers, Sequences, FiniteSets, TLC

(***************************************************************************)
(* Bounds of the model.                                                    *)
(***************************************************************************)
\* most excerpts of one multi-buffer
MaxExcerpts == 2
\* largest visible line count, in half lines (1 = 0.5 lines)
MaxHalfLines == 1
\* deepest rainbow layer key that is tracked
MaxDepth == 2

(***************************************************************************)
(* Values of the program.                                                  *)
(***************************************************************************)
BracketRefreshReason == {"BufferEdited", "ScrollPositionChanged", "SelectionsChanged"}

CursorShape == {"Bar", "Block", "Underline", "Hollow"}

\* visible_line_count().unwrap_or(40.)
DefaultVisibleLines == 40

Range(s, e) == [start |-> s, end |-> e]

Min(a, b) == IF a < b THEN a ELSE b

Max(a, b) == IF a < b THEN b ELSE a

(***************************************************************************)
(* Source buffers and their bracket pairs (language crate).                *)
(***************************************************************************)
BufferIds == {"B1", "B2"}

\* B1 is   (()      B2 is  (é)
\*         )
BufferText(b) ==
    IF b = "B1" THEN <<"(", "(", ")", "\n", ")">>
    ELSE <<"(", "W", "w", ")">>

BufferLen(b) == Len(BufferText(b))

\* the character that starts at local offset p ("" at the end of the buffer)
BufferCharAt(b, p) == IF p >= 0 /\ p < BufferLen(b) THEN BufferText(b)[p + 1] ELSE ""

RECURSIVE ScanBrackets(_, _, _, _)
ScanBrackets(t, i, stack, acc) ==
    IF i > Len(t) THEN acc
    ELSE IF t[i] = "(" THEN ScanBrackets(t, i + 1, Append(stack, i - 1), acc)
    ELSE IF t[i] = ")" /\ stack # <<>> THEN
        ScanBrackets(t, i + 1, SubSeq(stack, 1, Len(stack) - 1),
            Append(acc, [open_range |-> Range(stack[Len(stack)], stack[Len(stack)] + 1),
                         close_range |-> Range(i - 1, i),
                         depth |-> Len(stack) - 1]))
    ELSE ScanBrackets(t, i + 1, stack, acc)

\* every matched pair of a buffer, with its nesting depth in that buffer
BufferBrackets(b) == ScanBrackets(BufferText(b), 1, <<>>, <<>>)

PairSpan(pair) == Range(pair.open_range.start, pair.close_range.end)

\* BufferSnapshot::bracket_ranges: the pairs that overlap or touch the range
BracketRanges(b, range) ==
    SelectSeq(BufferBrackets(b),
        LAMBDA pair : /\ pair.open_range.start <= range.end
                      /\ pair.close_range.end >= range.start)

(***************************************************************************)
(* Multi-buffers: sequences of excerpts [buffer, start, end), each a range *)
(* of whole lines of its buffer.  Every excerpt but the last is followed   *)
(* by one newline in composite coordinates.  A document d is a snapshot of *)
(* a multi-buffer.                                                         *)
(***************************************************************************)
LineStarts(b) == {0} \cup {p + 1 : p \in {q \in 0..(BufferLen(b) - 1) : BufferCharAt(b, q) = "\n"}}

LineEnds(b) == {BufferLen(b)} \cup {q \in 0..(BufferLen(b) - 1) : BufferCharAt(b, q) = "\n"}

Excerpts ==
    UNION {{ex \in [buffer : {b}, start : LineStarts(b), end : LineEnds(b)] :
                ex.end > ex.start} : b \in BufferIds}

ExcerptLen(ex) == ex.end - ex.start

RECURSIVE ExcerptOffset(_, _)
\* composite offset at which excerpt i of the excerpts starts
ExcerptOffset(excerpts, i) ==
    IF i = 1 THEN 0
    ELSE ExcerptOffset(excerpts, i - 1) + ExcerptLen(excerpts[i - 1]) + 1

RECURSIVE ExcerptsText(_, _)
\* the text of excerpt i and of those after it, a newline between two
ExcerptsText(excerpts, i) ==
    LET ex == excerpts[i]
        own == SubSeq(BufferText(ex.buffer), ex.start + 1, ex.end)
    IN IF i = Len(excerpts) THEN own
       ELSE own \o <<"\n">> \o ExcerptsText(excerpts, i + 1)

\* the offsets at which the rows of a text start, in order
RowStarts(text) ==
    LET newlines == {q \in 1..Len(text) : text[q] = "\n"}
    IN [r \in 1..(Cardinality(newlines) + 1) |->
            IF r = 1 THEN 0
            ELSE CHOOSE q \in newlines : Cardinality({x \in newlines : x < q}) = r - 2]

\* MultiBufferSnapshot: the excerpts with what the snapshot keeps of them
MultiBufferSnapshot(excerpts) ==
    [excerpts |-> excerpts,
     starts |-> [i \in 1..Len(excerpts) |-> ExcerptOffset(excerpts, i)],
     text |-> ExcerptsText(excerpts, 1),
     row_starts |-> RowStarts(ExcerptsText(excerpts, 1))]

\* the excerpt lists of the documents: every excerpt is shown once (two
\* excerpts of one buffer may still overlap)
ExcerptLists ==
    {excerpts \in UNION {[1..n -> Excerpts] : n \in 1..MaxExcerpts} :
        \A i, j \in DOMAIN excerpts : excerpts[i] = excerpts[j] => i = j}

Docs == {MultiBufferSnapshot(excerpts) : excerpts \in ExcerptLists}

\* composite offset at which excerpt i starts
ExcerptStart(d, i) == d.starts[i]

\* MultiBufferSnapshot::len
DocLen(d) == Len(d.text)

\* the excerpt a composite offset lies in; the trailing newline belongs to
\* the excerpt before it, the end of the document to the last excerpt
ExcerptAt(d, p) ==
    IF p >= d.starts[Len(d.starts)] THEN Len(d.starts)
    ELSE CHOOSE i \in 1..Len(d.starts) :
            /\ d.starts[i] <= p
            /\ p <= d.starts[i] + ExcerptLen(d.excerpts[i])

\* the character that starts at composite offset p ("" at the end)
CharAt(d, p) == IF p >= 0 /\ p < Len(d.text) THEN d.text[p + 1] ELSE ""

\* char::len_utf8 of the character at p
CharLen(d, p) == IF CharAt(d, p) = "W" THEN 2 ELSE 1

\* offsets that are character boundaries
IsCharBoundary(d, p) == p >= 0 /\ p <= DocLen(d) /\ CharAt(d, p) # "w"

(***************************************************************************)
(* Points (row, column) of the multi-buffer (text and multi_buffer crates).*)
(***************************************************************************)
Point(r, c) == [row |-> r, column |-> c]

\* MultiBufferSnapshot::max_point().row
MaxRow(d) == Len(d.row_starts) - 1

\* composite offset of the start of row r
RowStart(d, r) == d.row_starts[r + 1]

LineLen(d, r) ==
    (IF r = MaxRow(d) THEN DocLen(d) ELSE RowStart(d, r + 1) - 1) - RowStart(d, r)

\* ToPoint: offset to point
OffsetToPoint(d, p) ==
    LET r == Cardinality({k \in 1..Len(d.row_starts) : d.row_starts[k] <= p}) - 1
    IN Point(r, p - RowStart(d, r))

\* ToOffset: point to offset
PointToOffset(d, pt) == RowStart(d, pt.row) + pt.column

\* impl Add for Point
PointAdd(a, b) ==
    IF b.row = 0 THEN Point(a.row, a.column + b.column)
    ELSE Point(a.row + b.row, b.column)

\* MultiBufferSnapshot::clip_point(point, Bias::Left)
ClipPoint(d, pt) ==
    IF pt.row > MaxRow(d) THEN OffsetToPoint(d, DocLen(d))
    ELSE LET c == Min(pt.column, LineLen(d, pt.row))
         IN IF CharAt(d, RowStart(d, pt.row) + c) = "w" THEN Point(pt.row, c - 1)
            ELSE Point(pt.row, c)

(***************************************************************************)
(* 4.1 Viewport window (lines 43-53).                                      *)
(***************************************************************************)
NoLineCount == [known |-> FALSE, halves |-> 0]

LineCounts == {NoLineCount} \cup {[known |-> TRUE, halves |-> h] : h \in 0..MaxHalfLines}

\* visible_line_count().unwrap_or(40.).ceil() as u32
CeilVisibleLines(count) ==
    IF count.known THEN (count.halves + 1) \div 2 ELSE DefaultVisibleLines

\* multi_buffer_visible_start
VisibleStart(d, anchor) == OffsetToPoint(d, anchor)

\* the end taken as an absolute row, the start not added
VisibleEndNotAdded(d, anchor, count) ==
    ClipPoint(d, Point(CeilVisibleLines(count), 0))

\* multi_buffer_visible_end
VisibleEnd(d, anchor, count) ==
    ClipPoint(d, PointAdd(VisibleStart(d, anchor), Point(CeilVisibleLines(count), 0)))

\* the visible window as composite offsets
VisibleWindow(d, anchor, count) ==
    Range(PointToOffset(d, VisibleStart(d, anchor)),
          PointToOffset(d, VisibleEnd(d, anchor, count)))

(***************************************************************************)
(* Excerpt mapping (multi_buffer crate).                                   *)
(***************************************************************************)
RECURSIVE BufferRangesFrom(_, _, _)
BufferRangesFrom(d, i, w) ==
    IF i > Len(d.excerpts) \/ ExcerptStart(d, i) > w.end THEN <<>>
    ELSE <<[excerpt |-> i,
            buffer |-> d.excerpts[i].buffer,
            range |-> Range(Min(d.excerpts[i].end, d.excerpts[i].start + Max(0, w.start - ExcerptStart(d, i))),
                            Min(d.excerpts[i].end, d.excerpts[i].start + Max(0, w.end - ExcerptStart(d, i))))]>>
         \o BufferRangesFrom(d, i + 1, w)

\* MultiBufferSnapshot::range_to_buffer_ranges: per excerpt that the
\* composite range w meets, the part of the excerpt in local coordinates
RangeToBufferRanges(d, w) == BufferRangesFrom(d, ExcerptAt(d, w.start), w)

\* MultiBufferSnapshot::excerpt_containing: the excerpt (its index) that
\* holds the whole composite range, 0 when the range starts past the end of
\* the document or spans more than one excerpt
ExcerptContaining(d, range) ==
    IF range.start > DocLen(d) THEN 0
    ELSE IF range.end # range.start
            /\ (range.end > DocLen(d) \/ ExcerptAt(d, range.end) # ExcerptAt(d, range.start))
         THEN 0
    ELSE ExcerptAt(d, range.start)

\* MultiBufferExcerpt::contains_buffer_range
ContainsBufferRange(ex, range) == range.start >= ex.start /\ range.end <= ex.end

\* MultiBufferExcerpt::map_range_from_buffer
MapRangeFromBuffer(d, i, range) ==
    Range(ExcerptStart(d, i) + (range.start - d.excerpts[i].start),
          ExcerptStart(d, i) + (range.end - d.excerpts[i].start))

\* MultiBufferExcerpt::map_range_to_buffer
MapRangeToBuffer(d, i, range) ==
    Range(d.excerpts[i].start + (range.start - ExcerptStart(d, i)),
          d.excerpts[i].start + (range.end - ExcerptStart(d, i)))

(***************************************************************************)
(* 4.2 - 4.4 Bracket matches of the window (lines 55-84).                  *)
(***************************************************************************)
\* the pairs of a part mapped without the containment test of line 70
ExcerptMatchesUnfiltered(d, part) ==
    LET kept == BracketRanges(part.buffer, part.range)
        excerpt == ExcerptContaining(d, part.range)
    IN IF excerpt = 0 THEN <<>>
       ELSE [k \in 1..Len(kept) |->
                [depth |-> kept[k].depth,
                 open |-> MapRangeFromBuffer(d, excerpt, kept[k].open_range),
                 close |-> MapRangeFromBuffer(d, excerpt, kept[k].close_range),
                 from |-> part.excerpt,
                 via |-> excerpt,
                 pair |-> kept[k]]]

\* lines 59-81, for one (buffer_snapshot, buffer_range, _) of
\* range_to_buffer_ranges: the excerpt is looked up by the local range, and
\* the pairs it contains are mapped through it.  `from`, `via` and `pair`
\* record where a match comes from; the code keeps (depth, open, close).
ExcerptMatches(d, part) ==
    LET buffer_brackets == BracketRanges(part.buffer, part.range)
        excerpt == ExcerptContaining(d, part.range)
        kept == SelectSeq(buffer_brackets,
                    LAMBDA pair : ContainsBufferRange(d.excerpts[excerpt], PairSpan(pair)))
    IN IF excerpt = 0 THEN <<>>
       ELSE [k \in 1..Len(kept) |->
                [depth |-> kept[k].depth,
                 open |-> MapRangeFromBuffer(d, excerpt, kept[k].open_range),
                 close |-> MapRangeFromBuffer(d, excerpt, kept[k].close_range),
                 from |-> part.excerpt,
                 via |-> excerpt,
                 pair |-> kept[k]]]

RECURSIVE Flatten(_)
Flatten(seqs) == IF seqs = <<>> THEN <<>> ELSE Head(seqs) \o Flatten(Tail(seqs))

\* bracket_matches before grouping: the matches of every part, in order
BracketMatches(d, w) ==
    LET parts == RangeToBufferRanges(d, w)
    IN Flatten([k \in 1..Len(parts) |-> ExcerptMatches(d, parts[k])])

\* into_group_map_by: the keys
MatchDepths(matches) == {matches[k].depth : k \in 1..Len(matches)}

\* into_group_map_by: the group of one key
DepthGroup(matches, depth) == SelectSeq(matches, LAMBDA m : m.depth = depth)

\* lines 94-109: the ranges of one group, open then close of each match
GroupRanges(group) == Flatten([k \in 1..Len(group) |-> <<group[k].open, group[k].close>>])

(***************************************************************************)
(* 4.4 Colour of a depth (lines 35-38).  Hues are whole degrees; h is kept *)
(* in 360ths and s, l, a in hundredths.                                    *)
(***************************************************************************)
\* the % of f32: the remainder has the sign of the dividend
Rem(a, b) == IF a >= 0 THEN a % b ELSE 0 - ((0 - a) % b)

Clamp(x, lo, hi) == IF x < lo THEN lo ELSE IF x > hi THEN hi ELSE x

FullTurn == 360

\* gpui::hsla, which clamps every component to 0..1  (h is given in 360ths
\* of a turn: dividing the hue by 360.0 leaves the number of 360ths)
Hsla(h, s, l, a) ==
    [h |-> Clamp(h, 0, FullTurn), s |-> Clamp(s, 0, 100), l |-> Clamp(l, 0, 100),
     a |-> Clamp(a, 0, 100)]

\* the hue with the remainder left out
HueNotWrapped(config, depth) == config.start_hue + (depth * config.hue_step)

\* line 36
Hue(config, depth) == Rem(config.start_hue + (depth * config.hue_step), FullTurn)

\* get_color_for_depth
GetColorForDepth(config, depth) == Hsla(Hue(config, depth), 75, 60, 100)

(***************************************************************************)
(* 4.6 Highlight of the pair enclosing the cursor (lines 118-153).         *)
(***************************************************************************)
\* Selection::is_empty
IsEmpty(sel) == sel.start = sel.end

\* Selection::head
SelHead(sel) == IF sel.reversed THEN sel.start ELSE sel.end

\* MultiBufferSnapshot::innermost_enclosing_bracket_ranges(range, None):
\* <<open, close>> of the smallest pair of the excerpt of the range that
\* encloses it, <<>> when there is none
InnermostEnclosingBracketRanges(d, range) ==
    LET i == ExcerptContaining(d, range)
        local == MapRangeToBuffer(d, i, range)
        all == BufferBrackets(d.excerpts[i].buffer)
        enclosing == {k \in 1..Len(all) :
                        /\ all[k].open_range.start <= local.start
                        /\ all[k].close_range.end >= local.end
                        /\ ContainsBufferRange(d.excerpts[i], PairSpan(all[k]))}
        best == CHOOSE k \in enclosing :
                    \A j \in enclosing :
                        all[k].close_range.end - all[k].open_range.start
                            <= all[j].close_range.end - all[j].open_range.start
    IN IF i = 0 \/ enclosing = {} THEN <<>>
       ELSE <<MapRangeFromBuffer(d, i, all[best].open_range),
              MapRangeFromBuffer(d, i, all[best].close_range)>>

\* the tail one byte after the head
CursorTailOneByte(d, shape, head) ==
    IF (shape = "Block" \/ shape = "Hollow") /\ head < DocLen(d)
    THEN head + 1
    ELSE head

\* lines 132-139
CursorTail(d, shape, head) ==
    IF (shape = "Block" \/ shape = "Hollow") /\ head < DocLen(d)
    THEN head + CharLen(d, head)
    ELSE head

\* lines 126-130: the head of the empty selection is out of range
Aborted(d, sel) == IsEmpty(sel) /\ SelHead(sel) > DocLen(d)

\* lines 120-143: the range head..tail the lookup is made for, <<>> when
\* the call returns before the lookup
QueryRange(d, sel, shape) ==
    IF ~IsEmpty(sel) \/ SelHead(sel) > DocLen(d) THEN <<>>
    ELSE Range(SelHead(sel), CursorTail(d, shape, SelHead(sel)))

(***************************************************************************)
(* State.                                                                  *)
(***************************************************************************)
VARIABLES
    doc,                 \* snapshot.buffer_snapshot (line 41)
    scroll_anchor,       \* snapshot.scroll_anchor.anchor, a composite offset
    visible_line_count,  \* self.visible_line_count()
    selection,           \* self.selections.newest::<usize>()
    cursor_shape,        \* self.cursor_shape
    rainbow_settings,    \* EditorSettings::get_global(cx).rainbow_brackets
    rainbow,             \* text highlights of RainbowBracketHighlight, by depth key
    matching,            \* background highlights of MatchingBracketHighlight
    last,                \* the refresh call that has just returned, if any, and what it did
    shade                \* the hue and colour get_color_for_depth gave last, and for which depth

vars == <<doc, scroll_anchor, visible_line_count, selection, cursor_shape,
          rainbow_settings, rainbow, matching, last, shade>>

\* a key that holds no highlight
NoLayer == [ranges |-> <<>>, color |-> Hsla(0, 0, 0, 0)]

\* no refresh has returned since the editor state last changed
NoCall ==
    [reason |-> "None", keys |-> {}, cursor_ran |-> FALSE, repeated |-> FALSE,
     query |-> <<>>, before |-> <<>>]

\* the editor state has changed since the call that returned last; what an
\* aborted call found before it is kept until the next call
Changed(call) == [NoCall EXCEPT !.before = call.before]

\* the hue settings of test_rainbow_bracket_hue_wraps_at_360 (lines 294-295)
HueSettings == {<<350, 30>>}

Settings ==
    {[enabled |-> e, start_hue |-> h[1], hue_step |-> h[2]] : e \in BOOLEAN, h \in HueSettings}

\* scroll anchors: the top left of a display row, which with soft wrap is
\* any character boundary
ScrollAnchors(d) == {p \in 0..DocLen(d) : IsCharBoundary(d, p)}

\* no colour has been asked for
NoShade == [depth |-> 0, hue |-> 0, color |-> Hsla(0, 0, 0, 0), asked |-> FALSE]

\* cursor positions: every character boundary, and one offset past the end
\* of the document (the case line 127 guards against)
Heads(d) == {p \in 0..(DocLen(d) + 1) : p > DocLen(d) \/ IsCharBoundary(d, p)}

Init ==
    /\ doc \in Docs
    /\ scroll_anchor = 0
    /\ visible_line_count = NoLineCount
    /\ selection = [start |-> 1, end |-> 1, reversed |-> FALSE]
    /\ cursor_shape = "Bar"
    /\ rainbow_settings \in Settings
    /\ rainbow = [k \in 0..MaxDepth |-> NoLayer]
    /\ matching = <<>>
    /\ last = NoCall
    /\ shade = NoShade

(***************************************************************************)
(* The refresh (lines 22-154).                                             *)
(***************************************************************************)
\* the toggle not read
NeverDisabled(config) == FALSE

\* lines 31-33
RainbowDisabled(config) == ~config.enabled

\* the reason not read
NeverScrollOnly(refresh_reason) == FALSE

\* line 115
ScrollOnly(refresh_reason) == refresh_reason = "ScrollPositionChanged"

\* the ranges added to those of the key
HighlightTextKeyAdded(old, ranges, color) ==
    [ranges |-> old.ranges \o ranges, color |-> color]

\* highlight_text_key: the ranges replace those of the key
HighlightTextKey(old, ranges, color) == [ranges |-> ranges, color |-> color]

\* a key submitted only while it holds no ranges yet
RainbowAfterOnlyNew(layers, config, matches) ==
    [k \in DOMAIN layers |->
        IF k \in MatchDepths(matches) /\ layers[k].ranges = <<>>
        THEN HighlightTextKey(layers[k], GroupRanges(DepthGroup(matches, k)),
                              GetColorForDepth(config, k))
        ELSE layers[k]]

\* every key without a match emptied
RainbowAfterCleared(layers, config, matches) ==
    [k \in DOMAIN layers |->
        IF k \in MatchDepths(matches)
        THEN HighlightTextKey(layers[k], GroupRanges(DepthGroup(matches, k)),
                              GetColorForDepth(config, k))
        ELSE NoLayer]

\* lines 86-113: one submission per depth of bracket_matches
RainbowAfter(layers, config, matches) ==
    [k \in DOMAIN layers |->
        IF k \in MatchDepths(matches)
        THEN HighlightTextKey(layers[k], GroupRanges(DepthGroup(matches, k)),
                              GetColorForDepth(config, k))
        ELSE layers[k]]

\* clear_background_highlights
ClearBackgroundHighlights(old) == <<>>

\* the layer not cleared first
MatchingAfterNotCleared(old, d, sel, shape) ==
    LET head == SelHead(sel)
        found == InnermostEnclosingBracketRanges(d, Range(head, CursorTail(d, shape, head)))
    IN IF ~IsEmpty(sel) THEN old
       ELSE IF head > DocLen(d) THEN old
       ELSE IF found = <<>> THEN old
       ELSE found

\* the pair looked up at the head alone, the cell of a block cursor left out
MatchingAfterHeadOnly(old, d, sel, shape) ==
    LET cleared == ClearBackgroundHighlights(old)
        head == SelHead(sel)
        found == InnermostEnclosingBracketRanges(d, Range(head, head))
    IN IF ~IsEmpty(sel) THEN cleared
       ELSE IF head > DocLen(d) THEN cleared
       ELSE IF found = <<>> THEN cleared
       ELSE found

\* the pair added to the ranges the layer holds, the layer not cleared
MatchingAfterAdded(old, d, sel, shape) ==
    LET head == SelHead(sel)
        found == InnermostEnclosingBracketRanges(d, Range(head, CursorTail(d, shape, head)))
    IN IF ~IsEmpty(sel) THEN old
       ELSE IF head > DocLen(d) THEN old
       ELSE old \o found

\* the out-of-range head found before the layer is cleared
MatchingAfterAbortFirst(old, d, sel, shape) ==
    LET cleared == ClearBackgroundHighlights(old)
        head == SelHead(sel)
        found == InnermostEnclosingBracketRanges(d, Range(head, CursorTail(d, shape, head)))
    IN IF IsEmpty(sel) /\ head > DocLen(d) THEN old
       ELSE IF ~IsEmpty(sel) THEN cleared
       ELSE IF found = <<>> THEN cleared
       ELSE found

\* lines 118-153: the layer is cleared, then set (highlight_background) to
\* the enclosing pair of an empty selection whose head is in range
MatchingAfter(old, d, sel, shape) ==
    LET cleared == ClearBackgroundHighlights(old)
        head == SelHead(sel)
        found == InnermostEnclosingBracketRanges(d, Range(head, CursorTail(d, shape, head)))
    IN IF ~IsEmpty(sel) THEN cleared
       ELSE IF head > DocLen(d) THEN cleared
       ELSE IF found = <<>> THEN cleared
       ELSE found

\* the rainbow layers left alone when only the selection has changed
RefreshRainbowByReason(refresh_reason) ==
    LET bracket_matches ==
            BracketMatches(doc, VisibleWindow(doc, scroll_anchor, visible_line_count))
        returned == [reason |-> refresh_reason,
                     keys |-> {},
                     cursor_ran |-> FALSE,
                     repeated |-> last.reason = refresh_reason,
                     query |-> <<>>,
                     before |-> <<>>]
    IN /\ IF RainbowDisabled(rainbow_settings)
          THEN /\ UNCHANGED <<rainbow, matching>>
               /\ last' = returned
          ELSE /\ rainbow' = IF refresh_reason = "SelectionsChanged" THEN rainbow
                             ELSE RainbowAfter(rainbow, rainbow_settings, bracket_matches)
               /\ IF ScrollOnly(refresh_reason)
                  THEN /\ UNCHANGED matching
                       /\ last' = [returned EXCEPT
                                     !.keys = MatchDepths(bracket_matches)]
                  ELSE /\ matching' = MatchingAfter(matching, doc, selection, cursor_shape)
                       /\ last' = [returned EXCEPT
                                     !.keys = MatchDepths(bracket_matches),
                                     !.cursor_ran = TRUE,
                                     !.query = QueryRange(doc, selection, cursor_shape),
                                     !.before = IF Aborted(doc, selection)
                                                THEN [rainbow |-> rainbow,
                                                      anchor |-> scroll_anchor,
                                                      count |-> visible_line_count]
                                                ELSE <<>>]
       /\ UNCHANGED <<doc, scroll_anchor, visible_line_count, selection, cursor_shape,
                      rainbow_settings, shade>>

\* refresh_bracket_highlights(refresh_reason)
Refresh(refresh_reason) ==
    LET bracket_matches ==
            BracketMatches(doc, VisibleWindow(doc, scroll_anchor, visible_line_count))
        returned == [reason |-> refresh_reason,
                     keys |-> {},
                     cursor_ran |-> FALSE,
                     repeated |-> last.reason = refresh_reason,
                     query |-> <<>>,
                     before |-> <<>>]
    IN /\ IF RainbowDisabled(rainbow_settings)
          THEN /\ UNCHANGED <<rainbow, matching>>
               /\ last' = returned
          ELSE /\ rainbow' = RainbowAfter(rainbow, rainbow_settings, bracket_matches)
               /\ IF ScrollOnly(refresh_reason)
                  THEN /\ UNCHANGED matching
                       /\ last' = [returned EXCEPT
                                     !.keys = MatchDepths(bracket_matches)]
                  ELSE /\ matching' = MatchingAfter(matching, doc, selection, cursor_shape)
                       /\ last' = [returned EXCEPT
                                     !.keys = MatchDepths(bracket_matches),
                                     !.cursor_ran = TRUE,
                                     !.query = QueryRange(doc, selection, cursor_shape),
                                     !.before = IF Aborted(doc, selection)
                                                THEN [rainbow |-> rainbow,
                                                      anchor |-> scroll_anchor,
                                                      count |-> visible_line_count]
                                                ELSE <<>>]
       /\ UNCHANGED <<doc, scroll_anchor, visible_line_count, selection, cursor_shape,
                      rainbow_settings, shade>>

RefreshBufferEdited == Refresh("BufferEdited")

RefreshScrollPositionChanged == Refresh("ScrollPositionChanged")

RefreshSelectionsChanged == Refresh("SelectionsChanged")

(***************************************************************************)
(* The editor around the refresh: what the refresh reads changes.          *)
(***************************************************************************)
\* the view scrolls
Scroll ==
    /\ \E a \in ScrollAnchors(doc) :
        /\ a # scroll_anchor
        /\ scroll_anchor' = a
    /\ last' = Changed(last)
    /\ UNCHANGED <<doc, visible_line_count, selection, cursor_shape, rainbow_settings,
                   rainbow, matching, shade>>

\* the view is resized, or is not laid out yet
Resize ==
    /\ \E n \in LineCounts :
        /\ n # visible_line_count
        /\ visible_line_count' = n
    /\ last' = Changed(last)
    /\ UNCHANGED <<doc, scroll_anchor, selection, cursor_shape, rainbow_settings,
                   rainbow, matching, shade>>

\* the cursor moves to the next position on either side, the selection
\* collapsing to it
MoveCursor ==
    /\ LET heads == Heads(doc)
           head == SelHead(selection)
       IN \E p \in heads :
            /\ p # head
            /\ \A q \in heads : ~(Min(p, head) < q /\ q < Max(p, head))
            /\ selection' = [start |-> p, end |-> p, reversed |-> FALSE]
    /\ last' = Changed(last)
    /\ UNCHANGED <<doc, scroll_anchor, visible_line_count, cursor_shape, rainbow_settings,
                   rainbow, matching, shade>>

\* the character after the cursor is selected, the head staying before it
SelectCharacter ==
    /\ IsEmpty(selection)
    /\ SelHead(selection) < DocLen(doc)
    /\ selection' = [start |-> SelHead(selection),
                     end |-> SelHead(selection) + CharLen(doc, SelHead(selection)),
                     reversed |-> TRUE]
    /\ last' = Changed(last)
    /\ UNCHANGED <<doc, scroll_anchor, visible_line_count, cursor_shape, rainbow_settings,
                   rainbow, matching, shade>>

\* the cursor shape changes
SetCursorShape ==
    /\ \E shape \in CursorShape :
        /\ shape # cursor_shape
        /\ cursor_shape' = shape
    /\ last' = Changed(last)
    /\ UNCHANGED <<doc, scroll_anchor, visible_line_count, selection, rainbow_settings,
                   rainbow, matching, shade>>

\* the settings change
UpdateSettings ==
    /\ \E config \in Settings :
        /\ config # rainbow_settings
        /\ rainbow_settings' = config
    /\ last' = Changed(last)
    /\ UNCHANGED <<doc, scroll_anchor, visible_line_count, selection, cursor_shape,
                   rainbow, matching, shade>>

(***************************************************************************)
(* Specifications.  The rainbow layers depend on the window and not on the *)
(* cursor, the matching layer on the cursor and not on the window: one     *)
(* specification moves the window under a resting cursor, the other moves  *)
(* the cursor over a resting window (the whole document, 40 lines).        *)
(***************************************************************************)
NextRainbow ==
    \/ RefreshBufferEdited
    \/ RefreshScrollPositionChanged
    \/ RefreshSelectionsChanged
    \/ Scroll
    \/ Resize
    \/ UpdateSettings

SpecRainbow == Init /\ [][NextRainbow]_vars

NextCursor ==
    \/ RefreshBufferEdited
    \/ RefreshScrollPositionChanged
    \/ RefreshSelectionsChanged
    \/ MoveCursor
    \/ SelectCharacter
    \/ SetCursorShape
    \/ UpdateSettings

SpecCursor == Init /\ [][NextCursor]_vars

\* the cursor moves and the view is resized, the rest at rest
NextRecover ==
    \/ RefreshBufferEdited
    \/ RefreshScrollPositionChanged
    \/ RefreshSelectionsChanged
    \/ MoveCursor
    \/ Resize

InitRecover == Init /\ rainbow_settings.enabled

SpecRecover == InitRecover /\ [][NextRecover]_vars

(***************************************************************************)
(* The colour of a depth on its own: get_color_for_depth under settings    *)
(* and depths beyond those of the documents above.                         *)
(***************************************************************************)
\* deepest depth a colour is asked for
MaxColorDepth == 13

StartHues == {-30, 0, 90, 350}

HueSteps == {-45, 0, 1, 30, 45, 360, 395}

ColorSettings ==
    {[enabled |-> TRUE, start_hue |-> h, hue_step |-> st] : h \in StartHues, st \in HueSteps}

InitColor ==
    /\ doc = MultiBufferSnapshot(<<[buffer |-> "B2", start |-> 0, end |-> BufferLen("B2")]>>)
    /\ scroll_anchor = 0
    /\ visible_line_count = NoLineCount
    /\ selection = [start |-> 1, end |-> 1, reversed |-> FALSE]
    /\ cursor_shape = "Bar"
    /\ rainbow_settings \in ColorSettings
    /\ rainbow = [k \in 0..MaxDepth |-> NoLayer]
    /\ matching = <<>>
    /\ last = NoCall
    /\ shade = NoShade

\* line 88: the colour of one depth is computed
ColorDepth ==
    /\ \E depth \in 0..MaxColorDepth :
        shade' = [depth |-> depth,
                  hue |-> Hue(rainbow_settings, depth),
                  color |-> GetColorForDepth(rainbow_settings, depth),
                  asked |-> TRUE]
    /\ UNCHANGED <<doc, scroll_anchor, visible_line_count, selection, cursor_shape,
                   rainbow_settings, rainbow, matching, last>>

\* the hue settings change
UpdateColorSettings ==
    /\ \E config \in ColorSettings :
        /\ config # rainbow_settings
        /\ rainbow_settings' = config
    /\ shade' = NoShade
    /\ UNCHANGED <<doc, scroll_anchor, visible_line_count, selection, cursor_shape,
                   rainbow, matching, last>>

NextColor ==
    \/ ColorDepth
    \/ UpdateColorSettings

SpecColor == InitColor /\ [][NextColor]_vars

(***************************************************************************)
(* Properties.                                                             *)
(***************************************************************************)
\* the window of the current scroll state
Window == VisibleWindow(doc, scroll_anchor, visible_line_count)

\* a refresh has returned and nothing it reads has changed since
Returned == last.reason # "None"

\* the ranges of a layer, as a set
RangeSet(ranges) == {ranges[k] : k \in 1..Len(ranges)}

\* C1: after a refresh whose reason is BufferEdited or SelectionsChanged the
\* enclosing-pair layer is the one cleared and recomputed from the current
\* selection, whether the rainbow feature is enabled or disabled.
C1_CursorHighlighterRuns ==
    last.reason \in {"BufferEdited", "SelectionsChanged"}
        => matching = MatchingAfter(matching, doc, selection, cursor_shape)

\* C2: a refresh for ScrollPositionChanged (the step after which it is the
\* call that has just returned) leaves the enclosing-pair layer as it was
\* before the call, in every state.
C2_ScrollKeepsMatching ==
    [][last'.reason = "ScrollPositionChanged" => matching' = matching]_vars

\* a scroll refresh has returned over a layer that a recomputation from the
\* selection, changed since the layer was emitted, would replace
C2_Witness ==
    /\ last.reason = "ScrollPositionChanged"
    /\ rainbow_settings.enabled
    /\ matching # <<>>
    /\ matching # MatchingAfter(matching, doc, selection, cursor_shape)

\* C3: while rainbow highlighting is disabled no step, of any refresh reason
\* and over any document, submits or changes a rainbow layer of any depth.
C3_DisabledSubmitsNothing ==
    [][~rainbow_settings.enabled => (rainbow' = rainbow /\ last'.keys = {})]_vars

\* a refresh has returned with the feature disabled, over a window that
\* holds brackets of a depth whose layer is still absent
C3_Witness ==
    /\ Returned
    /\ ~rainbow_settings.enabled
    /\ \E k \in MatchDepths(BracketMatches(doc, Window)) : rainbow[k] = NoLayer

\* C4: no bracket pair emitted by a refresh has a full local span
\* (open_range.start .. close_range.end) that is not wholly inside the
\* bounds of the excerpt it was discovered from.
C4_ContainmentFilter ==
    (Returned /\ rainbow_settings.enabled)
        => LET matches == BracketMatches(doc, Window)
           IN \A k \in 1..Len(matches) :
                ContainsBufferRange(doc.excerpts[matches[k].from], PairSpan(matches[k].pair))

\* C5: a refresh called again with the same reason, nothing it reads having
\* changed (the step after which the call that has just returned repeats
\* the one before), leaves every rainbow layer and the enclosing-pair layer
\* as the first call left them.
C5_Idempotent ==
    [][last'.repeated => (rainbow' = rainbow /\ matching' = matching)]_vars

\* the second of two calls in a row has returned, both kinds of layer set
C5_Witness ==
    /\ last.repeated
    /\ last.cursor_ran
    /\ matching # <<>>
    /\ \E k \in last.keys : rainbow[k] # NoLayer

\* C6: when the cursor highlighter has run on an empty selection whose head
\* is within the document, the enclosing-pair layer is exactly the open and
\* close range the innermost-enclosing-pair lookup returns for head..tail,
\* and is empty when the lookup finds no pair.
C6_EnclosingPairOfCursor ==
    (last.cursor_ran /\ IsEmpty(selection) /\ SelHead(selection) <= DocLen(doc))
        => matching = InnermostEnclosingBracketRanges(doc,
                Range(SelHead(selection),
                      CursorTail(doc, cursor_shape, SelHead(selection))))

\* the highlighter has run for a block cursor and emitted a pair that the
\* lookup at the head alone does not return
C6_Witness ==
    /\ last.cursor_ran
    /\ IsEmpty(selection)
    /\ SelHead(selection) < DocLen(doc)
    /\ cursor_shape = "Block"
    /\ matching # <<>>
    /\ matching # InnermostEnclosingBracketRanges(doc,
                        Range(SelHead(selection), SelHead(selection)))

\* C7: when the cursor highlighter has run on a non-empty selection the
\* enclosing-pair layer is empty, whatever brackets enclose the selection.
C7_SelectionDismisses ==
    (last.cursor_ran /\ ~IsEmpty(selection)) => matching = <<>>

\* the highlighter has run on a non-empty selection that a pair encloses
C7_Witness ==
    /\ last.cursor_ran
    /\ ~IsEmpty(selection)
    /\ InnermostEnclosingBracketRanges(doc, Range(selection.start, selection.end)) # <<>>

\* C8: for every scroll anchor and visible line count the window satisfies
\* document start <= window.start <= window.end <= document end.
C8_WindowClipped ==
    /\ 0 <= Window.start
    /\ Window.start <= Window.end
    /\ Window.end <= DocLen(doc)

\* a refresh has returned for a fractional line count, rounded up to a row
\* past the last one, the window cut at the end of the document
C8_Witness ==
    /\ Returned
    /\ visible_line_count.known
    /\ visible_line_count.halves % 2 = 1
    /\ scroll_anchor > 0
    /\ VisibleStart(doc, scroll_anchor).row + CeilVisibleLines(visible_line_count)
            > MaxRow(doc)
    /\ Window.end = DocLen(doc)

OwnExcerptMatches(d, part) ==
    LET kept == SelectSeq(BracketRanges(part.buffer, part.range),
                    LAMBDA pair : ContainsBufferRange(d.excerpts[part.excerpt], PairSpan(pair)))
    IN [k \in 1..Len(kept) |->
            [depth |-> kept[k].depth,
             open |-> MapRangeFromBuffer(d, part.excerpt, kept[k].open_range),
             close |-> MapRangeFromBuffer(d, part.excerpt, kept[k].close_range)]]

OwnMatches(d, w) ==
    LET parts == RangeToBufferRanges(d, w)
    IN Flatten([k \in 1..Len(parts) |-> OwnExcerptMatches(d, parts[k])])

\* C10: with rainbow enabled, after a refresh the layer of every depth
\* present in the window holds exactly the open and close ranges of the
\* discovered pairs of that depth, of all excerpts that meet the window,
\* whose span their own excerpt contains, each mapped through that excerpt.
C10_LayerOfDepth ==
    (Returned /\ rainbow_settings.enabled)
        => LET own == OwnMatches(doc, Window)
           IN \A depth \in MatchDepths(own) :
                RangeSet(rainbow[depth].ranges)
                    = RangeSet(GroupRanges(DepthGroup(own, depth)))

\* C11: a refresh leaves unchanged every rainbow layer whose depth key has
\* no surviving pair in the window of the call: the layer of a depth that
\* left the window still holds the ranges of the earlier refresh.
C11_StaleKeysKept ==
    [][last'.reason # "None"
        => \A k \in DOMAIN rainbow : k \notin last'.keys => rainbow'[k] = rainbow[k]]_vars

\* a refresh has returned over a window without a pair of some depth whose
\* layer still holds the ranges of an earlier refresh
C11_Witness ==
    /\ Returned
    /\ rainbow_settings.enabled
    /\ \E k \in DOMAIN rainbow :
        /\ k \notin MatchDepths(BracketMatches(doc, Window))
        /\ rainbow[k].ranges # <<>>

\* the pairs of a layer: its ranges come as open, close of each pair
LayerPairs(layer) ==
    {<<layer.ranges[2 * k - 1], layer.ranges[2 * k]>> : k \in 1..(Len(layer.ranges) \div 2)}

\* the composite range excerpt i of the document is mapped to
ExcerptRange(d, i) == Range(ExcerptStart(d, i), ExcerptStart(d, i) + ExcerptLen(d.excerpts[i]))

\* C12 as stated: every pair a refresh submits lies wholly within the
\* visible window of the call (and so within the part of its excerpt that
\* the window shows); a pair with a token outside the window is discarded.
C12_WithinWindow ==
    (Returned /\ rainbow_settings.enabled)
        => \A k \in last.keys : \A pr \in LayerPairs(rainbow[k]) :
                Window.start <= pr[1].start /\ pr[2].end <= Window.end

\* C12 amended: every pair a refresh submits lies wholly within the mapped
\* range of one excerpt of the document, the one it was filtered and mapped
\* through, whether or not its tokens are inside the visible window.
C12_WithinOneExcerpt ==
    (Returned /\ rainbow_settings.enabled)
        => \A k \in last.keys : \A pr \in LayerPairs(rainbow[k]) :
                \E i \in 1..Len(doc.excerpts) :
                    /\ ExcerptRange(doc, i).start <= pr[1].start
                    /\ pr[1].end <= pr[2].start
                    /\ pr[2].end <= ExcerptRange(doc, i).end

\* a refresh has submitted a pair that meets the window with its opening
\* token before the start of the window
C12_Witness ==
    /\ Returned
    /\ rainbow_settings.enabled
    /\ \E k \in last.keys : \E pr \in LayerPairs(rainbow[k]) :
            /\ pr[1].end <= Window.start
            /\ pr[2].end > Window.start
            /\ pr[2].start <= Window.end

\* the pairs of a part of the window that its own excerpt contains and that
\* are absent, as mapped through that excerpt, from the layer of their depth
MissingPairs(d, part, layers) ==
    LET own == OwnExcerptMatches(d, part)
    IN {k \in 1..Len(own) :
            ~ /\ own[k].open \in RangeSet(layers[own[k].depth].ranges)
              /\ own[k].close \in RangeSet(layers[own[k].depth].ranges)}

\* C13: when the excerpt of a queried local range cannot be resolved, at
\* most the one affected pair is dropped: every other pair contained in its
\* excerpt, of the same excerpt and of every other excerpt of the window,
\* is in the layer of its depth after the refresh.
C13_OnlyAffectedPairDropped ==
    (Returned /\ rainbow_settings.enabled)
        => LET parts == RangeToBufferRanges(doc, Window)
           IN \A k \in 1..Len(parts) :
                ExcerptContaining(doc, parts[k].range) = 0
                    => /\ Cardinality(MissingPairs(doc, parts[k], rainbow)) <= 1
                       /\ \A j \in 1..Len(parts) :
                            j # k => MissingPairs(doc, parts[j], rainbow) = {}

\* C14: when a refresh that is not a scroll finds the head of the empty
\* selection past the end of the document, the rainbow layers of the window
\* are submitted in full and the enclosing-pair layer ends the call cleared.
C14_OutOfRangeCursor ==
    (last.cursor_ran /\ IsEmpty(selection) /\ SelHead(selection) > DocLen(doc))
        => LET matches == BracketMatches(doc, Window)
           IN /\ matching = <<>>
              /\ last.keys = MatchDepths(matches)
              /\ \A k \in last.keys :
                    rainbow[k] = [ranges |-> GroupRanges(DepthGroup(matches, k)),
                                  color |-> GetColorForDepth(rainbow_settings, k)]

\* the highlighter has run with the head past the end of a document whose
\* window holds brackets
C14_Witness ==
    /\ last.cursor_ran
    /\ IsEmpty(selection)
    /\ SelHead(selection) > DocLen(doc)
    /\ last.keys # {}
    /\ matching = <<>>

\* the rainbow layers a refresh leaves, from the layers before it and from
\* the document, the scroll position, the line count and the settings alone
RainbowOfWindow(layers, d, anchor, count, config) ==
    IF config.enabled
    THEN LET matches == BracketMatches(d, VisibleWindow(d, anchor, count))
         IN [k \in DOMAIN layers |->
                IF k \in MatchDepths(matches)
                THEN [ranges |-> GroupRanges(DepthGroup(matches, k)),
                      color |-> GetColorForDepth(config, k)]
                ELSE layers[k]]
    ELSE layers

\* C15: the rainbow layers a refresh leaves do not depend on the refresh
\* reason, the selection or the cursor shape: a refresh of any reason, from
\* the same layers, document, scroll position, line count and settings,
\* leaves the same layers.
C15_RainbowIgnoresReason ==
    [][last'.reason # "None"
        => rainbow' = RainbowOfWindow(rainbow, doc, scroll_anchor, visible_line_count,
                                      rainbow_settings)]_vars

\* a refresh for a changed selection has returned, the cursor a block moved
\* from where it started, and has submitted layers
C15_Witness ==
    /\ last.reason = "SelectionsChanged"
    /\ cursor_shape = "Block"
    /\ SelHead(selection) > 1
    /\ \E k \in last.keys : rainbow[k].ranges # <<>>

\* C16: the range the cursor highlighter queries is head..tail, where tail
\* is the end of the character that starts at head when the cursor shape is
\* Block or Hollow and head is before the end of the document, and is head
\* otherwise; in every case head <= tail <= document length.
C16_QueryRange ==
    last.query # <<>>
        => LET head == last.query.start
               tail == last.query.end
           IN /\ head = SelHead(selection)
              /\ head <= tail /\ tail <= DocLen(doc)
              /\ IF cursor_shape \in {"Block", "Hollow"} /\ head < DocLen(doc)
                 THEN /\ tail > head
                      /\ IsCharBoundary(doc, tail)
                      /\ \A p \in (head + 1)..(tail - 1) : ~IsCharBoundary(doc, p)
                 ELSE tail = head

\* the lookup has been made for a hollow cursor on a character of two bytes
C16_Witness ==
    /\ last.query # <<>>
    /\ cursor_shape = "Hollow"
    /\ CharAt(doc, last.query.start) = "W"
    /\ last.query.end = last.query.start + 2

\* the bracket pairs of the document: of every excerpt, the pairs of its
\* buffer that it contains, as <<open, close>> in composite coordinates
DocPairs(d) ==
    UNION {{<<MapRangeFromBuffer(d, i, BufferBrackets(d.excerpts[i].buffer)[k].open_range),
              MapRangeFromBuffer(d, i, BufferBrackets(d.excerpts[i].buffer)[k].close_range)>> :
                k \in {j \in 1..Len(BufferBrackets(d.excerpts[i].buffer)) :
                        ContainsBufferRange(d.excerpts[i],
                            PairSpan(BufferBrackets(d.excerpts[i].buffer)[j]))}} :
           i \in 1..Len(d.excerpts)}

\* C17: in every reachable state the enclosing-pair layer holds no range or
\* exactly the open and the close range of one bracket pair; the ranges of
\* a pair emitted earlier never stay beside those of a later one.
C17_AtMostOnePair ==
    matching = <<>> \/ (Len(matching) = 2 /\ matching \in DocPairs(doc))

\* the highlighter has run and the layer holds a pair other than the one
\* around the position the cursor started at
C17_Witness ==
    /\ last.cursor_ran
    /\ matching # <<>>
    /\ InnermostEnclosingBracketRanges(doc, Range(1, 1)) # <<>>
    /\ matching # InnermostEnclosingBracketRanges(doc, Range(1, 1))

\* C18 as stated: after a refresh whose cursor step aborted on a head out of
\* range, the next refresh that is not a scroll, over the same document and
\* with a valid empty selection, leaves the rainbow layers and the
\* enclosing-pair layer that the same refresh leaves when it starts from
\* the layers of before the aborted one.
C18_Recovery ==
    [][(last.before # <<>> /\ last'.query # <<>>)
        => /\ rainbow' = RainbowOfWindow(last.before.rainbow, doc, scroll_anchor,
                                         visible_line_count, rainbow_settings)
           /\ matching' = InnermostEnclosingBracketRanges(doc, last'.query)]_vars

\* C18 amended: the same, for a next refresh whose scroll position and
\* visible line count are also those of the aborted one.
C18_RecoverySameWindow ==
    [][(/\ last.before # <<>>
        /\ last'.query # <<>>
        /\ scroll_anchor = last.before.anchor
        /\ visible_line_count = last.before.count)
        => /\ rainbow' = RainbowOfWindow(last.before.rainbow, doc, scroll_anchor,
                                         visible_line_count, rainbow_settings)
           /\ matching' = InnermostEnclosingBracketRanges(doc, last'.query)]_vars

\* an aborted refresh has changed a layer, the cursor is back inside a pair
\* and the window is the one of the aborted refresh: the next refresh is
\* the one of the claim
C18_Witness ==
    /\ last.before # <<>>
    /\ last.before.rainbow # rainbow
    /\ scroll_anchor = last.before.anchor
    /\ visible_line_count = last.before.count
    /\ QueryRange(doc, selection, cursor_shape) # <<>>
    /\ InnermostEnclosingBracketRanges(doc, QueryRange(doc, selection, cursor_shape)) # <<>>

\* C19: within one refresh no composite range is submitted more than once,
\* and none under two different depth keys, however many excerpts (of one
\* buffer or of several) meet the window.
C19_NoDuplicates ==
    (Returned /\ rainbow_settings.enabled)
        => /\ \A k \in last.keys :
                \A i, j \in 1..Len(rainbow[k].ranges) :
                    rainbow[k].ranges[i] = rainbow[k].ranges[j] => i = j
           /\ \A k1, k2 \in last.keys :
                k1 # k2 => RangeSet(rainbow[k1].ranges) \cap RangeSet(rainbow[k2].ranges) = {}

\* C20: for every depth and every start_hue and hue_step, negative ones and
\* ones of 360 or more included, the hue computed for the depth lies in
\* 0 <= hue < 360 before it is divided by 360.
C20_HueInRange ==
    shade.asked => (0 <= shade.hue /\ shade.hue < 360)

====
